---- MODULE Spec2Model ----
(***************************************************************************)
(* Model of bananapod-srv (src/main.go): the document cache, the thumbnail *)
(* cache, their two mutexes, and the request handlers AllDocs, Categories  *)
(* and DocThumbnail, each served in a goroutine of its own.                *)
(*                                                                         *)
(* Strings are sequences of byte codes.  64-bit unsigned numbers are       *)
(* sequences of four 16-bit limbs, least significant first, so that the    *)
(* FNV-1a hash and strconv.ParseUint keep their width.                     *)
(***************************************************************************)
EXTENDS Integers, Sequences, FiniteSets, TLC

\* ------------------------------------------------------------- bounds
\* number of request goroutines that can be in flight at once
NReq == 2
\* each archive file has the versions 0..MaxVer (size, mtime, content)
MaxVer == 1
\* number of requests the server takes in all
MaxStarts == 4
\* number of requests the server takes in the runs checked for liveness
FairStarts == 3

\* ------------------------------------------------------------- bytes
Limb == 65536

ChSlash == 47
ChDot == 46
ChUnder == 95
ChZero == 48
ChNine == 57
ChPlus == 43
ChMinus == 45
ChStar == 42
ChQuestion == 63
ChLBracket == 91
ChRBracket == 93
ChBackslash == 92

\* ".pdf"
PdfSuffix == <<46, 112, 100, 102>>

HasPrefix(s, pre) ==
    /\ Len(s) >= Len(pre)
    /\ SubSeq(s, 1, Len(pre)) = pre

HasSuffix(s, suf) ==
    /\ Len(s) >= Len(suf)
    /\ SubSeq(s, Len(s) - Len(suf) + 1, Len(s)) = suf

\* path.Join of a directory and an entry name with one separator
JoinPath(dir, name) == dir \o <<ChSlash>> \o name

RECURSIVE LastSlash(_, _)
LastSlash(s, i) ==
    IF i = 0 THEN 0
    ELSE IF s[i] = ChSlash THEN i
    ELSE LastSlash(s, i - 1)

\* path.Base for a path that does not end in a separator
PathBase(s) == SubSeq(s, LastSlash(s, Len(s)) + 1, Len(s))

\* ------------------------------------------------------------- uint64
\* bitwise exclusive or of two numbers below 2^bits
RECURSIVE Xor(_, _, _)
Xor(a, b, bits) ==
    IF bits = 0 THEN 0
    ELSE ((a + b) % 2) + 2 * Xor(a \div 2, b \div 2, bits - 1)

U64Zero == <<0, 0, 0, 0>>
U64Max == <<65535, 65535, 65535, 65535>>

\* x * m + add for a small m, as five limbs (the fifth is the overflow)
MulSmall(x, m, add) ==
    LET t1 == x[1] * m + add
        t2 == x[2] * m + (t1 \div Limb)
        t3 == x[3] * m + (t2 \div Limb)
        t4 == x[4] * m + (t3 \div Limb)
    IN  <<t1 % Limb, t2 % Limb, t3 % Limb, t4 % Limb, t4 \div Limb>>

\* x + y mod 2^64
U64Add(x, y) ==
    LET t1 == x[1] + y[1]
        t2 == x[2] + y[2] + (t1 \div Limb)
        t3 == x[3] + y[3] + (t2 \div Limb)
        t4 == x[4] + y[4] + (t3 \div Limb)
    IN  <<t1 % Limb, t2 % Limb, t3 % Limb, t4 % Limb>>

\* x << 40 mod 2^64
U64Shl40(x) ==
    <<0, 0, (x[1] * 256) % Limb, (x[2] * 256 + (x[1] \div 256)) % Limb>>

\* FNV-1a, 64 bit: offset basis 0xcbf29ce484222325, prime 0x100000001b3
FnvOffset64 == <<8997, 33826, 40164, 52210>>
FnvPrimeLow == 435

FnvMulPrime(x) == U64Add(SubSeq(MulSmall(x, FnvPrimeLow, 0), 1, 4), U64Shl40(x))

\* hash ^= byte; hash *= prime (the byte meets the low eight bits only)
FnvStep(h, b) ==
    FnvMulPrime(<<(h[1] \div 256) * 256 + Xor(h[1] % 256, b, 8), h[2], h[3], h[4]>>)

\* h.Write(s), byte by byte; the test of h[1] is never true and makes the
\* evaluation of each step strict
RECURSIVE FnvWrite(_, _)
FnvWrite(h, s) ==
    IF s = <<>> \/ h[1] < 0 THEN h
    ELSE FnvWrite(FnvStep(h, Head(s)), Tail(s))

\* fnv.New64a(); h.Write([]byte(filepath)); h.Sum64()
Fingerprint(p) == FnvWrite(FnvOffset64, p)

\* strconv.ParseUint(s, 10, 64): [val, err]; a syntax error yields 0 and a
\* range error the largest value.
RECURSIVE ParseDigits(_, _)
ParseDigits(n, s) ==
    IF s = <<>> THEN [val |-> n, err |-> "none"]
    ELSE IF Head(s) < ChZero \/ Head(s) > ChNine
         THEN [val |-> U64Zero, err |-> "syntax"]
    ELSE LET t == MulSmall(n, 10, Head(s) - ChZero)
         IN  IF t[5] # 0 THEN [val |-> U64Max, err |-> "range"]
             ELSE ParseDigits(SubSeq(t, 1, 4), Tail(s))

ParseUint(s) ==
    IF s = <<>> THEN [val |-> U64Zero, err |-> "syntax"]
    ELSE ParseDigits(U64Zero, s)

\* x div 10 and x mod 10 (long division from the most significant limb)
DivMod10(x) ==
    LET c4 == x[4]
        c3 == (c4 % 10) * Limb + x[3]
        c2 == (c3 % 10) * Limb + x[2]
        c1 == (c2 % 10) * Limb + x[1]
    IN  [quot |-> <<c1 \div 10, c2 \div 10, c3 \div 10, c4 \div 10>>, rem |-> c1 % 10]

\* the decimal rendering of an id, as encoding/json writes a uint64
RECURSIVE FormatUint(_)
FormatUint(x) ==
    LET dm == DivMod10(x)
    IN  IF dm.quot = U64Zero THEN <<ChZero + dm.rem>>
        ELSE FormatUint(dm.quot) \o <<ChZero + dm.rem>>

\* base64.StdEncoding.EncodeToString
B64Char(i) ==
    IF i < 26 THEN 65 + i
    ELSE IF i < 52 THEN 97 + (i - 26)
    ELSE IF i < 62 THEN 48 + (i - 52)
    ELSE IF i = 62 THEN 43 ELSE 47

B64Pad == 61

RECURSIVE Base64(_)
Base64(s) ==
    IF s = <<>> THEN <<>>
    ELSE IF Len(s) = 1 THEN
        <<B64Char(s[1] \div 4), B64Char((s[1] % 4) * 16), B64Pad, B64Pad>>
    ELSE IF Len(s) = 2 THEN
        <<B64Char(s[1] \div 4), B64Char((s[1] % 4) * 16 + (s[2] \div 16)),
          B64Char((s[2] % 16) * 4), B64Pad>>
    ELSE
        <<B64Char(s[1] \div 4), B64Char((s[1] % 4) * 16 + (s[2] \div 16)),
          B64Char((s[2] % 16) * 4 + (s[3] \div 64)), B64Char(s[3] % 64)>>
        \o Base64(SubSeq(s, 4, Len(s)))

\* ------------------------------------------------------------- time
\* A time is <<year, month, day, hour, minute, second>>; every time of the
\* model is in range, so time.Date normalises nothing and the order of
\* times is the lexical order of the six fields.
RECURSIVE TimeAfterFrom(_, _, _)
TimeAfterFrom(t, u, i) ==
    IF i > 6 THEN FALSE
    ELSE IF t[i] # u[i] THEN t[i] > u[i]
    ELSE TimeAfterFrom(t, u, i + 1)

\* time.Time.After
TimeAfter(t, u) == TimeAfterFrom(t, u, 1)

\* one %d of fmt.Sscanf: an optional sign and one or more decimal digits
RECURSIVE ScanDigits(_, _, _)
ScanDigits(s, n, any) ==
    IF s # <<>> /\ Head(s) >= ChZero /\ Head(s) <= ChNine
    THEN ScanDigits(Tail(s), n * 10 + (Head(s) - ChZero), TRUE)
    ELSE [ok |-> any, val |-> n, rest |-> s]

ScanInt(s) ==
    IF s # <<>> /\ Head(s) = ChMinus THEN
        LET r == ScanDigits(Tail(s), 0, FALSE)
        IN  [ok |-> r.ok, val |-> 0 - r.val, rest |-> r.rest]
    ELSE IF s # <<>> /\ Head(s) = ChPlus THEN ScanDigits(Tail(s), 0, FALSE)
    ELSE ScanDigits(s, 0, FALSE)

\* fmt.Sscanf(name, "%d_%d_%d_%d_%d_%d", ...): the values scanned before the
\* first mismatch (numparsed is their number, err is nil iff there are six)
RECURSIVE ScanFields(_, _, _)
ScanFields(s, k, acc) ==
    IF k = 0 THEN acc
    ELSE LET r == ScanInt(s)
         IN  IF ~r.ok THEN acc
             ELSE IF k = 1 THEN Append(acc, r.val)
             ELSE IF r.rest # <<>> /\ Head(r.rest) = ChUnder
                  THEN ScanFields(Tail(r.rest), k - 1, Append(acc, r.val))
                  ELSE Append(acc, r.val)

\* line 114: what Sscanf reads from the base name of a path
ScanName(filepath) == ScanFields(PathBase(filepath), 6, <<>>)

\* ------------------------------------------------------------- archive
\* The disk.  The archive "a" holds the hidden directory ".h", the category
\* "b" and the plain file "f"; "b" holds "1_1_1_1_1_1.pdf", the nested
\* directory "s" (with "z.pdf"), "t.txt" and "x.pdf".  The archive "c"
\* holds the empty category "[k]" and the category "k" with two files whose
\* paths have the same FNV-1a fingerprint, 1663127519174461358.  Entries
\* are listed in lexical order.
ArchivePath == <<97>>
ArchivePathC == <<99>>

DirH == <<46, 104>>
DirB == <<98>>
FileF == <<102>>
DirS == <<115>>
NameDated == <<49, 95, 49, 95, 49, 95, 49, 95, 49, 95, 49, 46, 112, 100, 102>>
NameTxt == <<116, 46, 116, 120, 116>>
NameX == <<120, 46, 112, 100, 102>>
NameZ == <<122, 46, 112, 100, 102>>
DirBracketK == <<91, 107, 93>>
DirK == <<107>>
\* "bjpfpcfgmlfagapa.pdf" and "fjidhmpanpknppob.pdf"
NameSameA == <<98, 106, 112, 102, 112, 99, 102, 103, 109, 108, 102, 97, 103, 97, 112, 97, 46, 112, 100, 102>>
NameSameB == <<102, 106, 105, 100, 104, 109, 112, 97, 110, 112, 107, 110, 112, 112, 111, 98, 46, 112, 100, 102>>

Entry(n, d) == [name |-> n, isDir |-> d]

ReadDir(dir) ==
    IF dir = <<>>
        THEN <<Entry(ArchivePath, TRUE), Entry(ArchivePathC, TRUE)>>
    ELSE IF dir = ArchivePath
        THEN <<Entry(DirH, TRUE), Entry(DirB, TRUE), Entry(FileF, FALSE)>>
    ELSE IF dir = JoinPath(ArchivePath, DirB)
        THEN <<Entry(NameDated, FALSE), Entry(DirS, TRUE),
               Entry(NameTxt, FALSE), Entry(NameX, FALSE)>>
    ELSE IF dir = JoinPath(JoinPath(ArchivePath, DirB), DirS)
        THEN <<Entry(NameZ, FALSE)>>
    ELSE IF dir = ArchivePathC
        THEN <<Entry(DirBracketK, TRUE), Entry(DirK, TRUE)>>
    ELSE IF dir = JoinPath(ArchivePathC, DirK)
        THEN <<Entry(NameSameA, FALSE), Entry(NameSameB, FALSE)>>
    ELSE <<>>

IsDir(path) ==
    \E i \in 1..Len(ReadDir(SubSeq(path, 1, LastSlash(path, Len(path)) - 1))) :
        LET e == ReadDir(SubSeq(path, 1, LastSlash(path, Len(path)) - 1))[i]
        IN  e.name = PathBase(path) /\ e.isDir

\* os.Lstat finds the path
Exists(path) ==
    \E i \in 1..Len(ReadDir(SubSeq(path, 1, LastSlash(path, Len(path)) - 1))) :
        ReadDir(SubSeq(path, 1, LastSlash(path, Len(path)) - 1))[i].name = PathBase(path)

\* filepath.Match of a pattern without separators on an entry name: "*" is
\* any run of characters, "?" any one character, "[...]" any one of the
\* characters listed (ranges, negation and escapes are left out), any
\* other character itself
RECURSIVE IndexFrom(_, _, _)
IndexFrom(s, c, i) ==
    IF i > Len(s) THEN 0
    ELSE IF s[i] = c THEN i
    ELSE IndexFrom(s, c, i + 1)

RECURSIVE Match(_, _)
Match(pattern, name) ==
    IF pattern = <<>> THEN name = <<>>
    ELSE IF pattern[1] = ChStar
        THEN Match(Tail(pattern), name)
             \/ (name # <<>> /\ Match(pattern, Tail(name)))
    ELSE IF name = <<>> THEN FALSE
    ELSE IF pattern[1] = ChQuestion THEN Match(Tail(pattern), Tail(name))
    ELSE IF pattern[1] = ChLBracket
        THEN LET close == IndexFrom(pattern, ChRBracket, 3)
             IN  /\ close # 0
                 /\ name[1] \in {pattern[i] : i \in 2..(close - 1)}
                 /\ Match(SubSeq(pattern, close + 1, Len(pattern)), Tail(name))
    ELSE pattern[1] = name[1] /\ Match(Tail(pattern), Tail(name))

\* hasMeta of filepath.Glob
HasMeta(s) ==
    \E i \in 1..Len(s) : s[i] \in {ChStar, ChQuestion, ChLBracket, ChBackslash}

\* glob of filepath.Glob: the entries of the directory dir, taken
\* literally, whose name matches the pattern
GlobIn(dir, pattern) ==
    IF ~IsDir(dir) THEN <<>>
    ELSE LET Hit(e) == Match(pattern, e.name)
             hits == SelectSeq(ReadDir(dir), Hit)
         IN  [i \in 1..Len(hits) |-> JoinPath(dir, hits[i].name)]

RECURSIVE Concat(_)
Concat(ss) == IF ss = <<>> THEN <<>> ELSE Head(ss) \o Concat(Tail(ss))

\* filepath.Glob: the last element of the pattern is matched in every
\* directory the rest of the pattern, itself a pattern, finds
RECURSIVE Glob(_)
Glob(pattern) ==
    LET dir == SubSeq(pattern, 1, LastSlash(pattern, Len(pattern)) - 1)
        file == PathBase(pattern)
    IN  IF ~HasMeta(pattern)
            THEN IF Exists(pattern) THEN <<pattern>> ELSE <<>>
        ELSE IF ~HasMeta(dir) THEN GlobIn(dir, file)
        ELSE Concat([i \in 1..Len(Glob(dir)) |-> GlobIn(Glob(dir)[i], file)])

\* filepath.Glob(dir + "/*"), lines 179-180
GlobAll(dir) == Glob(dir \o <<ChSlash, ChStar>>)

\* filepath.Glob(dir + "/*.pdf"), line 201
GlobPdf(dir) == Glob(dir \o <<ChSlash, ChStar>> \o PdfSuffix)

\* filepath.Glob(root + "/*/*.pdf"), lines 152-153
GlobDocs(root) == Glob(root \o <<ChSlash, ChStar, ChSlash, ChStar>> \o PdfSuffix)

\* what line 153 finds in each archive
DocsOf ==
    (ArchivePath :> GlobDocs(ArchivePath)) @@ (ArchivePathC :> GlobDocs(ArchivePathC))

AllFiles == DocsOf[ArchivePath] \o DocsOf[ArchivePathC]
FileSet == {AllFiles[i] : i \in 1..Len(AllFiles)}

\* the archive files that change on disk while the server runs: "x.pdf"
\* and "fjidhmpanpknppob.pdf"
Mutable == {p \in FileSet : PathBase(p) \in {NameX, NameSameB}}

\* what a file of version v holds: fi.Size(), fi.ModTime(), GetNPages(),
\* the text of page 0, the raster of page 0
FileSize(path, v) == 1000 * Len(path) + v
ModTime(path, v) == <<1 + v, 1, 1, 1, 1, 1>>
NPages(path, v) == 1 + v
PageText(path, v) == <<path[Len(path) - 4], ChZero + v>>
PageImage(path, v) == <<path[Len(path) - 4], v>>
\* the raster poppler hands back for an invalid handle or a failed render
BlankImage == <<>>

\* jpeg.Encode of a raster: the SOI marker and the encoded raster
JpegEncode(img) == <<255, 216>> \o img

\* ------------------------------------------------------------- sorting
\* ArchiveDocs.Less (line 64-66) on two records
Less(a, b) == TimeAfter(a.FileDate, b.FileDate)

Perms(n) == {f \in [1..n -> 1..n] : \A i, j \in 1..n : i # j => f[i] # f[j]}

\* sort.Sort(archiveDocs), line 172: sort.Sort promises an order in which no
\* element is Less than one before it and promises nothing about elements
\* neither of which is Less than the other (it is not a stable sort), so
\* every such arrangement of the slice is an outcome.
SortOutcomes(docs) ==
    {[i \in 1..Len(docs) |-> docs[f[i]]] : f \in
        {f \in Perms(Len(docs)) :
            \A i, j \in 1..Len(docs) : i < j => ~Less(docs[f[j]], docs[f[i]])}}

\* ------------------------------------------------------------- state
Reqs == 1..NReq

\* a store that leaves an entry already there as it is
MapPutFirst(m, k, v) == [x \in DOMAIN m \cup {k} |-> IF x \in DOMAIN m THEN m[x] ELSE v]

\* a store that drops every other entry of the map
MapPutOnly(m, k, v) == [x \in {k} |-> v]

\* m[k] = v on a Go map (lines 145, 285)
MapPut(m, k, v) == [x \in DOMAIN m \cup {k} |-> IF x = k THEN v ELSE m[x]]

\* per archive file, computed once: its id (lines 87-89), its base name
\* (line 134) and what Sscanf reads from the base name (line 114)
RECURSIVE InfoTable(_)
InfoTable(files) ==
    IF files = <<>> THEN <<>>
    ELSE (Head(files) :> [id |-> Fingerprint(Head(files)),
                          base |-> PathBase(Head(files)),
                          scanned |-> ScanName(Head(files))])
         @@ InfoTable(Tail(files))

FileInfo == InfoTable(AllFiles)

\* lines 112-119: the logical file date of a document
FileTime(filepath, modTime) ==
    IF Len(FileInfo[filepath].scanned) = 6 THEN FileInfo[filepath].scanned ELSE modTime

VARIABLES
    archivePath,        \* the -archive flag, line 77
    exit,               \* "running", or how the process ended
    fs,                 \* version of each archive file on disk
    docCache,           \* map[uint64]*ArchiveDoc, line 79
    docCacheMutex,      \* 0 when unlocked, else the goroutine holding it
    docThumbCache,      \* map[uint64]*ArchiveDocThumb, line 81
    docThumbCacheMutex, \* 0 when unlocked, else the goroutine holding it
    g,                  \* the request goroutines: handler, position, locals
    firstDoc,           \* history: path -> record of its first completed extraction
    firstThumb,         \* history: id -> bytes of its first rendered response
    docRestored,        \* history: ids stored into docCache more than once
    thumbRestored,      \* history: ids stored into docThumbCache more than once
    started             \* history: number of requests taken so far

vars == <<archivePath, exit, fs, docCache, docCacheMutex, docThumbCache, docThumbCacheMutex,
          g, firstDoc, firstThumb, docRestored, thumbRestored, started>>

\* archiveFiles of line 153 in the archive the server was started on
ArchiveFiles == DocsOf[archivePath]

NoResp == [invalid |-> FALSE, unknown |-> FALSE, wrote |-> FALSE, body |-> <<>>]

\* a goroutine slot with no request in it
Idle ==
    [handler |-> "idle", pc |-> "idle",
     idx |-> 0,          \* AllDocs: index of the file being processed
     docId |-> U64Zero,  \* docId of ProcessDocument / DocThumbnail
     doc |-> <<>>,       \* newDoc / prestoredDoc: <<>> is nil
     docs |-> <<>>,      \* AllDocs: archiveDocs
     cats |-> <<>>,      \* Categories: archiveCats
     thumb |-> <<>>,     \* DocThumbnail: b.Bytes()
     resp |-> NoResp,    \* what the handler wrote to w
     panicked |-> FALSE, \* the handler ended in a panic net/http recovered
     fault |-> "none",   \* history: the I/O failure this request ran into
     stored |-> FALSE,   \* history: this request wrote docThumbCache
     seen |-> <<>>,      \* history: first result known when this call began
     fileIO |-> 0,       \* history: os.Open/Stat calls of the current call
     pdfIO |-> 0,        \* history: PDF opens/renders of the current call
     openFiles |-> 0,    \* os.File handles this request opened and has not closed
     openPdfs |-> 0,     \* poppler documents this request opened and has not closed
     calls |-> <<>>,     \* history: the ProcessDocument calls of this request
     pre |-> <<>>]       \* history: archiveDocs before sort.Sort

\* what every start of the server sets up, lines 79-82
InitCaches ==
    /\ exit = "running"
    /\ fs = [p \in FileSet |-> 0]
    /\ docCache = <<>>
    /\ docCacheMutex = 0
    /\ docThumbCache = <<>>
    /\ docThumbCacheMutex = 0
    /\ g = [r \in Reqs |-> Idle]
    /\ firstDoc = <<>>
    /\ firstThumb = <<>>
    /\ docRestored = {}
    /\ thumbRestored = {}

\* the server runs on the archive "a"
Init == archivePath = ArchivePath /\ InitCaches /\ started = 0

\* the server runs on the archive "c"
InitC == archivePath = ArchivePathC /\ InitCaches /\ started = 0

Snapshot(m, k) == IF k \in DOMAIN m THEN <<m[k]>> ELSE <<>>

\* goroutine r can take a request: it serves none, or the handler it ran
\* has returned (what it answered stays visible until then)
Free(r) ==
    /\ g[r].pc \in {"idle", "done"}
    /\ started < MaxStarts

\* ------------------------------------------------------------- AllDocs
\* ProcessDocument is entered for the file at index i (lines 86-89), or the
\* loop of AllDocs is over and the slice is sorted next.
EnterCall(s, i, first) ==
    IF i <= Len(ArchiveFiles)
    THEN [s EXCEPT !.idx = i, !.pc = "pd_lock1",
                   !.docId = FileInfo[ArchiveFiles[i]].id,
                   !.doc = <<>>, !.fileIO = 0, !.pdfIO = 0, !.fault = "none",
                   !.seen = Snapshot(first, ArchiveFiles[i])]
    ELSE [s EXCEPT !.idx = i, !.pc = "ad_sort", !.docId = U64Zero,
                   !.doc = <<>>, !.fileIO = 0, !.pdfIO = 0, !.fault = "none",
                   !.seen = <<>>]

\* the loop of AllDocs left at the first document that fails
LeaveCallBreak(s, ret, first) ==
    EnterCall(
        [s EXCEPT !.docs = IF ret = <<>> THEN @ ELSE Append(@, ret[1]),
                  !.calls = Append(@, [path |-> ArchiveFiles[s.idx], ret |-> ret,
                                       seen |-> s.seen, fileIO |-> s.fileIO,
                                       pdfIO |-> s.pdfIO, fault |-> s.fault])],
        IF ret = <<>> THEN Len(ArchiveFiles) + 1 ELSE s.idx + 1, first)

\* lines 163-168: ProcessDocument has returned ret (<<>> with an error); an
\* error is logged and the file skipped, a record appended to archiveDocs
LeaveCall(s, ret, first) ==
    EnterCall(
        [s EXCEPT !.docs = IF ret = <<>> THEN @ ELSE Append(@, ret[1]),
                  !.calls = Append(@, [path |-> ArchiveFiles[s.idx], ret |-> ret,
                                       seen |-> s.seen, fileIO |-> s.fileIO,
                                       pdfIO |-> s.pdfIO, fault |-> s.fault])],
        s.idx + 1, first)

\* lines 151-162: the handler starts and globs the archive
StartAllDocs(r) ==
    /\ exit = "running"
    /\ Free(r)
    /\ started' = started + 1
    /\ g' = [g EXCEPT ![r] = EnterCall([Idle EXCEPT !.handler = "AllDocs"], 1, firstDoc)]
    /\ UNCHANGED <<archivePath, exit, fs, docCache, docCacheMutex, docThumbCache,
                   docThumbCacheMutex, firstDoc, firstThumb, docRestored, thumbRestored>>

\* line 92
PdLock1(r) ==
    /\ exit = "running"
    /\ g[r].pc = "pd_lock1"
    /\ docCacheMutex = 0
    /\ docCacheMutex' = r
    /\ g' = [g EXCEPT ![r].pc = "pd_lookup"]
    /\ UNCHANGED <<archivePath, exit, fs, docCache, docThumbCache, docThumbCacheMutex,
                   firstDoc, firstThumb, docRestored, thumbRestored, started>>

\* a lookup under the wrong key: an id that is not cached yields a record
\* cached under another id
CachedDocAny(cache, id) ==
    IF id \in DOMAIN cache THEN <<cache[id]>>
    ELSE IF DOMAIN cache = {} THEN <<>>
    ELSE <<cache[CHOOSE k \in DOMAIN cache : TRUE]>>

\* a lookup that also finds the record a call in flight for the same id
\* has extracted and not yet stored
CachedDocInFlight(cache, id) ==
    IF id \in DOMAIN cache THEN <<cache[id]>>
    ELSE IF \E q \in Reqs : g[q].pc \in {"pd_lock2", "pd_store"} /\ g[q].docId = id
    THEN g[CHOOSE q \in Reqs : g[q].pc \in {"pd_lock2", "pd_store"} /\ g[q].docId = id].doc
    ELSE <<>>

\* a lookup that never finds the record
CachedDocMiss(cache, id) == <<>>

\* the cached record a lookup of docCache yields for a goroutine
CachedDoc(cache, id) == Snapshot(cache, id)

\* a lookup that keeps the mutex through the extraction when it misses
PdLookupKeepLock(r) ==
    /\ exit = "running"
    /\ g[r].pc = "pd_lookup"
    /\ LET prestoredDoc == CachedDoc(docCache, g[r].docId)
       IN  /\ docCacheMutex' = IF prestoredDoc # <<>> THEN 0 ELSE r
           /\ g' = [g EXCEPT ![r] =
                    IF prestoredDoc # <<>> THEN LeaveCall(@, prestoredDoc, firstDoc)
                    ELSE [@ EXCEPT !.pc = "pd_extract"]]
    /\ UNCHANGED <<archivePath, exit, fs, docCache, docThumbCache, docThumbCacheMutex,
                   firstDoc, firstThumb, docRestored, thumbRestored, started>>

\* lines 93-97
PdLookup(r) ==
    /\ exit = "running"
    /\ g[r].pc = "pd_lookup"
    /\ docCacheMutex' = 0
    /\ LET prestoredDoc == CachedDoc(docCache, g[r].docId)
       IN  g' = [g EXCEPT ![r] =
                    IF prestoredDoc # <<>> THEN LeaveCall(@, prestoredDoc, firstDoc)
                    ELSE [@ EXCEPT !.pc = "pd_extract"]]
    /\ UNCHANGED <<archivePath, exit, fs, docCache, docThumbCache, docThumbCacheMutex,
                   firstDoc, firstThumb, docRestored, thumbRestored, started>>

\* lines 132-141
NewDoc(path, id, stat, pages, text) ==
    [Id |-> id, Name |-> FileInfo[path].base, FilePath |-> path,
     Size |-> stat[1], CreateDate |-> stat[2],
     FileDate |-> FileTime(path, stat[2]),
     Pages |-> pages, Content |-> Base64(text)]

\* the error of poppler.Open logged and not returned
AfterExtractNoReturn(s, outcome, newDoc, first) ==
    IF outcome \in {"ok", "pdf"} THEN [s EXCEPT !.pc = "pd_lock2", !.doc = <<newDoc>>]
    ELSE LeaveCall(s, <<>>, first)

\* lines 102-104, 106-108, 123-125 and 132-141: an error returns at once,
\* with no record; otherwise newDoc is built and the cache is locked next
AfterExtract(s, outcome, newDoc, first) ==
    IF outcome = "ok" THEN [s EXCEPT !.pc = "pd_lock2", !.doc = <<newDoc>>]
    ELSE LeaveCall(s, <<>>, first)

\* lines 99-141: os.Open, file.Stat and poppler.Open each succeed or fail.
\* The file is closed when ProcessDocument returns (defer, line 101): at
\* once on an error, after the store otherwise.  pdfDoc is never closed.
PdExtract(r) ==
    /\ exit = "running"
    /\ g[r].pc = "pd_extract"
    /\ \E outcome \in {"ok", "open", "stat", "pdf"} :
        LET path == ArchiveFiles[g[r].idx]
            s == [g[r] EXCEPT !.fileIO = @ + 1,
                              !.pdfIO = IF outcome \in {"ok", "pdf"} THEN @ + 1 ELSE @,
                              !.fault = IF outcome = "ok" THEN @ ELSE outcome,
                              !.openFiles = IF outcome = "ok" THEN @ + 1 ELSE @,
                              !.openPdfs = IF outcome = "ok" THEN @ + 1 ELSE @]
            stat == <<FileSize(path, fs[path]), ModTime(path, fs[path])>>
            newDoc == NewDoc(path, s.docId, stat, NPages(path, fs[path]),
                             PageText(path, fs[path]))
        IN  g' = [g EXCEPT ![r] = AfterExtract(s, outcome, newDoc, firstDoc)]
    /\ UNCHANGED <<archivePath, exit, fs, docCache, docCacheMutex, docThumbCache,
                   docThumbCacheMutex, firstDoc, firstThumb, docRestored,
                   thumbRestored, started>>

\* a Lock that does not wait for the holder to unlock
PdLock2NoWait(r) ==
    /\ exit = "running"
    /\ g[r].pc = "pd_lock2"
    /\ docCacheMutex' = r
    /\ g' = [g EXCEPT ![r].pc = "pd_store"]
    /\ UNCHANGED <<archivePath, exit, fs, docCache, docThumbCache, docThumbCacheMutex,
                   firstDoc, firstThumb, docRestored, thumbRestored, started>>

\* line 144
PdLock2(r) ==
    /\ exit = "running"
    /\ g[r].pc = "pd_lock2"
    /\ docCacheMutex = 0
    /\ docCacheMutex' = r
    /\ g' = [g EXCEPT ![r].pc = "pd_store"]
    /\ UNCHANGED <<archivePath, exit, fs, docCache, docThumbCache, docThumbCacheMutex,
                   firstDoc, firstThumb, docRestored, thumbRestored, started>>

\* lines 145-148, and the deferred file.Close() of line 101
PdStore(r) ==
    /\ exit = "running"
    /\ g[r].pc = "pd_store"
    /\ LET path == ArchiveFiles[g[r].idx]
           first == IF path \in DOMAIN firstDoc THEN firstDoc
                    ELSE MapPut(firstDoc, path, g[r].doc[1])
       IN  /\ docCache' = MapPut(docCache, g[r].docId, g[r].doc[1])
           /\ docCacheMutex' = 0
           /\ firstDoc' = first
           /\ docRestored' = IF g[r].docId \in DOMAIN docCache
                             THEN docRestored \cup {g[r].docId} ELSE docRestored
           /\ g' = [g EXCEPT ![r] =
                        LeaveCall([@ EXCEPT !.openFiles = @ - 1], g[r].doc, first)]
    /\ UNCHANGED <<archivePath, exit, fs, docThumbCache, docThumbCacheMutex, firstThumb,
                   thumbRestored, started>>

\* lines 171-175: sort and encode the listing
AdSort(r) ==
    /\ exit = "running"
    /\ g[r].pc = "ad_sort"
    /\ \E sorted \in SortOutcomes(g[r].docs) :
        g' = [g EXCEPT ![r] = [@ EXCEPT !.pc = "done", !.pre = g[r].docs,
                                        !.docs = sorted, !.resp.wrote = TRUE]]
    /\ UNCHANGED <<archivePath, exit, fs, docCache, docCacheMutex, docThumbCache,
                   docThumbCacheMutex, firstDoc, firstThumb, docRestored, thumbRestored, started>>

\* ------------------------------------------------------------- DocThumbnail
\* the id parameters requests come with: the ids of the archive files as
\* /alldocs/ lists them, a number that is no id ("7"), and no number ("x")
RECURSIVE ListedIds(_)
ListedIds(files) ==
    IF files = <<>> THEN {}
    ELSE {FormatUint(FileInfo[Head(files)].id)} \cup ListedIds(Tail(files))

IdParamsOf ==
    (ArchivePath :> (ListedIds(DocsOf[ArchivePath]) \cup {<<55>>, <<120>>}))
    @@ (ArchivePathC :> (ListedIds(DocsOf[ArchivePathC]) \cup {<<55>>, <<120>>}))

IdParams == IdParamsOf[archivePath]

\* lines 239-244: an id that does not parse is reported and the handler
\* goes on with the value ParseUint returned
StartThumb(r, docIdStr) ==
    /\ exit = "running"
    /\ Free(r)
    /\ started' = started + 1
    /\ LET parsed == ParseUint(docIdStr)
       IN  g' = [g EXCEPT ![r] =
                    [Idle EXCEPT !.handler = "DocThumbnail", !.pc = "th_lock1",
                                 !.docId = parsed.val,
                                 !.resp.invalid = (parsed.err # "none"),
                                 !.seen = Snapshot(firstThumb, parsed.val)]]
    /\ UNCHANGED <<archivePath, exit, fs, docCache, docCacheMutex, docThumbCache,
                   docThumbCacheMutex, firstDoc, firstThumb, docRestored, thumbRestored>>

\* line 246
ThLock1(r) ==
    /\ exit = "running"
    /\ g[r].pc = "th_lock1"
    /\ docThumbCacheMutex = 0
    /\ docThumbCacheMutex' = r
    /\ g' = [g EXCEPT ![r].pc = "th_lookup"]
    /\ UNCHANGED <<archivePath, exit, fs, docCache, docCacheMutex, docThumbCache,
                   firstDoc, firstThumb, docRestored, thumbRestored, started>>

\* a lookup that never finds the thumbnail
CachedThumbMiss(cache, id) == <<>>

\* the cached thumbnail a lookup of docThumbCache yields
CachedThumb(cache, id) == Snapshot(cache, id)

\* lines 247-252
ThLookup(r) ==
    /\ exit = "running"
    /\ g[r].pc = "th_lookup"
    /\ docThumbCacheMutex' = 0
    /\ LET prestoredThumb == CachedThumb(docThumbCache, g[r].docId)
       IN  g' = [g EXCEPT ![r] =
                    IF prestoredThumb # <<>>
                    THEN [@ EXCEPT !.pc = "done", !.resp.wrote = TRUE,
                                   !.resp.body = prestoredThumb[1].Encoding]
                    ELSE [@ EXCEPT !.pc = "th_lock2"]]
    /\ UNCHANGED <<archivePath, exit, fs, docCache, docCacheMutex, docThumbCache,
                   firstDoc, firstThumb, docRestored, thumbRestored, started>>

\* line 254
ThLock2(r) ==
    /\ exit = "running"
    /\ g[r].pc = "th_lock2"
    /\ docCacheMutex = 0
    /\ docCacheMutex' = r
    /\ g' = [g EXCEPT ![r].pc = "th_doclookup"]
    /\ UNCHANGED <<archivePath, exit, fs, docCache, docThumbCache, docThumbCacheMutex,
                   firstDoc, firstThumb, docRestored, thumbRestored, started>>

\* the handler without lines 257-260 and without the panic of line 262
AfterDocLookupNoCheck(s, prestoredDoc) ==
    [s EXCEPT !.pc = "th_render", !.doc = prestoredDoc]

\* lines 257-262: an unknown document is reported and the handler goes on;
\* prestoredDoc is nil then, and reading prestoredDoc.FilePath on line 262
\* panics; net/http recovers the panic and drops the request
AfterDocLookup(s, prestoredDoc) ==
    IF prestoredDoc = <<>>
    THEN [s EXCEPT !.pc = "done", !.resp.unknown = TRUE, !.panicked = TRUE]
    ELSE [s EXCEPT !.pc = "th_render", !.doc = prestoredDoc]

\* a lookup that panics on the unknown document before it unlocks
ThDocLookupPanicLocked(r) ==
    /\ exit = "running"
    /\ g[r].pc = "th_doclookup"
    /\ docCacheMutex' = IF CachedDoc(docCache, g[r].docId) = <<>> THEN r ELSE 0
    /\ g' = [g EXCEPT ![r] = AfterDocLookup(@, CachedDoc(docCache, g[r].docId))]
    /\ UNCHANGED <<archivePath, exit, fs, docCache, docThumbCache, docThumbCacheMutex,
                   firstDoc, firstThumb, docRestored, thumbRestored, started>>

\* lines 255-262
ThDocLookup(r) ==
    /\ exit = "running"
    /\ g[r].pc = "th_doclookup"
    /\ docCacheMutex' = 0
    /\ g' = [g EXCEPT ![r] = AfterDocLookup(@, CachedDoc(docCache, g[r].docId))]
    /\ UNCHANGED <<archivePath, exit, fs, docCache, docThumbCache, docThumbCacheMutex,
                   firstDoc, firstThumb, docRestored, thumbRestored, started>>

\* What lines 263-282 can come to.  A failed poppler.Open is logged and its
\* handle used all the same (line 268), which the PDF library does not
\* define: the call panics, it faults inside the library and ends the
\* process, or it hands back a blank raster.  Render returns no error: a
\* failed render shows as a nil raster, on which jpeg.Encode panics, or as a
\* blank one.  The error of jpeg.Encode is dropped (line 275) and leaves
\* the buffer empty.
RenderOutcomes ==
    {"ok", "open_panic", "open_crash", "open_blank",
     "render_panic", "render_blank", "encode"}

\* the outcomes in which poppler.Open of line 263 worked; the handler has
\* no pdfDoc.Close()
PdfOpened == {"ok", "render_panic", "render_blank", "encode"}

\* the bytes in b after lines 263-275
Encoded(outcome, path, v) ==
    IF outcome = "ok" THEN JpegEncode(PageImage(path, v))
    ELSE IF outcome = "encode" THEN <<>>
    ELSE JpegEncode(BlankImage)

\* lines 262-282
ThRender(r) ==
    /\ g[r].pc = "th_render"
    /\ exit = "running"
    /\ \E outcome \in RenderOutcomes :
        LET path == g[r].doc[1].FilePath
            s == [g[r] EXCEPT !.pdfIO = @ + 1,
                              !.fault = IF outcome = "ok" THEN "none" ELSE outcome,
                              !.openPdfs = IF outcome \in PdfOpened THEN @ + 1 ELSE @]
        IN  /\ exit' = IF outcome = "open_crash" THEN "crash" ELSE exit
            /\ g' = [g EXCEPT ![r] =
                        IF outcome = "open_crash" THEN [s EXCEPT !.pc = "exited"]
                        ELSE IF outcome \in {"open_panic", "render_panic"}
                        THEN [s EXCEPT !.pc = "done", !.panicked = TRUE]
                        ELSE [s EXCEPT !.pc = "th_lock3",
                                       !.thumb = Encoded(outcome, path, fs[path])]]
    /\ UNCHANGED <<archivePath, fs, docCache, docCacheMutex, docThumbCache,
                   docThumbCacheMutex, firstDoc, firstThumb, docRestored, thumbRestored, started>>

\* line 284
ThLock3(r) ==
    /\ exit = "running"
    /\ g[r].pc = "th_lock3"
    /\ docThumbCacheMutex = 0
    /\ docThumbCacheMutex' = r
    /\ g' = [g EXCEPT ![r].pc = "th_store"]
    /\ UNCHANGED <<archivePath, exit, fs, docCache, docCacheMutex, docThumbCache,
                   firstDoc, firstThumb, docRestored, thumbRestored, started>>

\* lines 278-282
NewThumb(id, encoding) == [Id |-> id, Encoding |-> encoding]

\* lines 285-288
ThStore(r) ==
    /\ exit = "running"
    /\ g[r].pc = "th_store"
    /\ docThumbCache' = MapPut(docThumbCache, g[r].docId, NewThumb(g[r].docId, g[r].thumb))
    /\ docThumbCacheMutex' = 0
    /\ firstThumb' = IF g[r].docId \in DOMAIN firstThumb THEN firstThumb
                     ELSE MapPut(firstThumb, g[r].docId, g[r].thumb)
    /\ thumbRestored' = IF g[r].docId \in DOMAIN docThumbCache
                        THEN thumbRestored \cup {g[r].docId} ELSE thumbRestored
    /\ g' = [g EXCEPT ![r] = [@ EXCEPT !.pc = "done", !.stored = TRUE,
                                       !.resp.wrote = TRUE, !.resp.body = g[r].thumb]]
    /\ UNCHANGED <<archivePath, exit, fs, docCache, docCacheMutex, firstDoc, docRestored, started>>

\* ------------------------------------------------------------- Categories
\* lines 186-212, from the entry at index i on: outcome[i] says whether
\* os.Open and f.Stat of entry i work; a failure of either is log.Fatal,
\* which ends the process (fatal is the index of the entry it happened at)
RECURSIVE CatLoop(_, _, _, _)
CatLoop(entries, outcome, i, archiveCats) ==
    IF i > Len(entries) THEN [cats |-> archiveCats, fatal |-> 0, fault |-> "none"]
    ELSE LET category == entries[i]
             cat == PathBase(category)
             isHidden == HasPrefix(cat, <<ChDot>>)
         IN  IF isHidden THEN CatLoop(entries, outcome, i + 1, archiveCats)
             ELSE IF outcome[i] # "ok"
                  THEN [cats |-> archiveCats, fatal |-> i, fault |-> outcome[i]]
             ELSE IF IsDir(category)
                  THEN CatLoop(entries, outcome, i + 1,
                               Append(archiveCats,
                                      [Name |-> cat,
                                       Elements |-> Len(GlobPdf(category))]))
                  ELSE CatLoop(entries, outcome, i + 1, archiveCats)

\* the entries line 180 finds under the archive root
ArchiveCategories == GlobAll(archivePath)

\* every entry opens and stats, or one of them fails to open or to stat
CatOutcomes(entries) ==
    {[j \in 1..Len(entries) |-> "ok"]} \cup
    {[j \in 1..Len(entries) |-> IF j = i THEN k ELSE "ok"] :
        i \in 1..Len(entries), k \in {"open", "stat"}}

\* the ways the loop of Categories can go in each archive, computed once
CatRunsOf ==
    (ArchivePath :> {CatLoop(GlobAll(ArchivePath), o, 1, <<>>) :
                        o \in CatOutcomes(GlobAll(ArchivePath))})
    @@ (ArchivePathC :> {CatLoop(GlobAll(ArchivePathC), o, 1, <<>>) :
                            o \in CatOutcomes(GlobAll(ArchivePathC))})

CatRuns == CatRunsOf[archivePath]

\* lines 178-215, the whole handler: it takes no lock and touches no cache;
\* the directories it opened are closed when it returns (defer, line 194)
Categories(r) ==
    /\ exit = "running"
    /\ Free(r)
    /\ started' = started + 1
    /\ \E res \in CatRuns :
        LET s == [Idle EXCEPT !.handler = "Categories", !.cats = res.cats,
                              !.fault = res.fault, !.idx = res.fatal]
        IN  /\ exit' = IF res.fatal = 0 THEN exit ELSE "fatal"
            /\ g' = [g EXCEPT ![r] =
                        IF res.fatal = 0
                        THEN [s EXCEPT !.pc = "done", !.resp.wrote = TRUE]
                        ELSE [s EXCEPT !.pc = "exited"]]
    /\ UNCHANGED <<archivePath, fs, docCache, docCacheMutex, docThumbCache,
                   docThumbCacheMutex, firstDoc, firstThumb, docRestored, thumbRestored>>

\* the archive file at path changes on disk
TouchFile(path) ==
    /\ exit = "running"
    /\ \E i \in 1..Len(ArchiveFiles) : ArchiveFiles[i] = path
    /\ fs[path] < MaxVer
    /\ fs' = [fs EXCEPT ![path] = @ + 1]
    /\ UNCHANGED <<archivePath, exit, docCache, docCacheMutex, docThumbCache,
                   docThumbCacheMutex, g, firstDoc, firstThumb, docRestored, thumbRestored, started>>

Next ==
    \/ \E r \in Reqs : StartAllDocs(r)
    \/ \E r \in Reqs : PdLock1(r)
    \/ \E r \in Reqs : PdLookup(r)
    \/ \E r \in Reqs : PdExtract(r)
    \/ \E r \in Reqs : PdLock2(r)
    \/ \E r \in Reqs : PdStore(r)
    \/ \E r \in Reqs : AdSort(r)
    \/ \E r \in Reqs : \E id \in IdParams : StartThumb(r, id)
    \/ \E r \in Reqs : ThLock1(r)
    \/ \E r \in Reqs : ThLookup(r)
    \/ \E r \in Reqs : ThLock2(r)
    \/ \E r \in Reqs : ThDocLookup(r)
    \/ \E r \in Reqs : ThRender(r)
    \/ \E r \in Reqs : ThLock3(r)
    \/ \E r \in Reqs : ThStore(r)
    \/ \E r \in Reqs : Categories(r)
    \/ \E p \in Mutable : TouchFile(p)

Spec == Init /\ [][Next]_vars

SpecC == InitC /\ [][Next]_vars

\* A goroutine that holds a mutex is at a map access, which it completes
\* (weak fairness); a goroutine blocked in Lock gets the mutex if it is
\* free again and again (strong fairness: sync.Mutex hands a mutex over to
\* a waiter that would starve).  Nothing is assumed of the file and PDF
\* work, which may take for ever, nor of requests arriving.
\* the steps of a request under a mutex, and its Lock calls
MapAccess(r) ==
    PdLookup(r) \/ PdStore(r) \/ ThLookup(r) \/ ThDocLookup(r) \/ ThStore(r)

Lock(r) == PdLock1(r) \/ PdLock2(r) \/ ThLock1(r) \/ ThLock2(r) \/ ThLock3(r)

Fairness == \A r \in Reqs : WF_vars(MapAccess(r)) /\ SF_vars(Lock(r))

\* the server on the archive "a" with FairStarts requests to come
InitFair ==
    /\ archivePath = ArchivePath
    /\ InitCaches
    /\ started = MaxStarts - FairStarts

SpecFair == InitFair /\ [][Next]_vars /\ Fairness


\* ------------------------------------------------------------- claims
IsThumb(r) == g[r].handler = "DocThumbnail"
IsAllDocs(r) == g[r].handler = "AllDocs"
IsCategories(r) == g[r].handler = "Categories"

\* C1: in every reachable state every key of docThumbCache is a key of
\* docCache.
C1_ThumbKeysAreDocKeys == DOMAIN docThumbCache \subseteq DOMAIN docCache

\* a thumbnail has been stored while the document cache holds its record
C1_Witness ==
    \E r \in Reqs : IsThumb(r) /\ g[r].stored /\ g[r].docId \in DOMAIN docThumbCache

\* C2: a thumbnail request whose id has no record in docCache (and no
\* cached thumbnail) reports the unknown document, ends there, and does no
\* PDF open, page fetch or render.
C2_UnknownStep ==
    \A r \in Reqs :
        (/\ g[r].pc = "th_doclookup"
         /\ g[r].docId \notin DOMAIN docCache
         /\ g'[r].pc # "th_doclookup")
        => /\ g'[r].resp.unknown
           /\ g'[r].pc = "done"
           /\ g'[r].pdfIO = 0

C2_UnknownState ==
    \A r \in Reqs :
        (IsThumb(r) /\ g[r].resp.unknown)
        => /\ g[r].pc = "done"
           /\ g[r].pdfIO = 0
           /\ ~g[r].stored
           /\ ~g[r].resp.wrote

C3_FailedRenderNotCached ==
    \A r \in Reqs : (IsThumb(r) /\ g[r].fault # "none") => ~g[r].stored

\* the bytes are the JPEG of the first page of an archive file, so no
\* dropped error had a part in them
IsRender(bytes) ==
    \E p \in FileSet : \E v \in 0..MaxVer : bytes = JpegEncode(PageImage(p, v))

\* C4 as claimed: a thumbnail request that began after the first rendered
\* response for its id returns the bytes of that first response and does
\* no PDF open or render.  (Stated for responses that are proper renders:
\* the claim fails with no failed open, render or encode involved.)
C4_LaterThumbnailSameBytes ==
    \A r \in Reqs :
        (/\ IsThumb(r) /\ g[r].seen # <<>> /\ g[r].pc = "done"
         /\ IsRender(g[r].seen[1]) /\ IsRender(g[r].resp.body))
        => /\ g[r].resp.body = g[r].seen[1]
           /\ g[r].pdfIO = 0

\* C4 as amended: a thumbnail request that began after the first rendered
\* response for its id is served from the cache without any PDF open or
\* render and without a store; its bytes are those of the first response
\* unless the entry of the id has been stored again since (by a request
\* that had missed the cache before the first one stored).
C4_LaterThumbnailFromCache ==
    \A r \in Reqs :
        (IsThumb(r) /\ g[r].seen # <<>>)
        => /\ g[r].pc \in {"th_lock1", "th_lookup", "done"}
           /\ g[r].pdfIO = 0
           /\ ~g[r].stored
           /\ ~g[r].panicked
           /\ g[r].pc = "done"
              => /\ g[r].resp.wrote
                 /\ g[r].docId \notin thumbRestored => g[r].resp.body = g[r].seen[1]

\* a later request was answered with the very bytes of the first response
C4_Witness ==
    \E r \in Reqs :
        /\ IsThumb(r) /\ g[r].seen # <<>> /\ g[r].pc = "done"
        /\ g[r].resp.body = g[r].seen[1]
        /\ g[r].resp.body # <<>>

\* C5 as claimed: a call of ProcessDocument that began after the first
\* completed call for its path returns the record of that first call, does
\* no file or PDF I/O and leaves docCache alone.
C5_LaterExtractSameRecord ==
    \A r \in Reqs :
        IsAllDocs(r)
        => /\ g[r].seen # <<>> => g[r].pc \in {"pd_lock1", "pd_lookup"}
           /\ \A i \in 1..Len(g[r].calls) :
                g[r].calls[i].seen # <<>>
                => /\ g[r].calls[i].ret = g[r].calls[i].seen
                   /\ g[r].calls[i].fileIO = 0
                   /\ g[r].calls[i].pdfIO = 0

\* C5 as amended: such a call returns a cached record, does no file or
\* PDF I/O and never gets to store; the record is that of the first call
\* unless the entry of the path has been stored again since (by a call that
\* had missed the cache before the first one stored).
C5_LaterExtractFromCache ==
    \A r \in Reqs :
        IsAllDocs(r)
        => /\ g[r].seen # <<>> => g[r].pc \in {"pd_lock1", "pd_lookup"}
           /\ \A i \in 1..Len(g[r].calls) :
                g[r].calls[i].seen # <<>>
                => /\ g[r].calls[i].ret # <<>>
                   /\ g[r].calls[i].fileIO = 0
                   /\ g[r].calls[i].pdfIO = 0
                   /\ FileInfo[g[r].calls[i].path].id \notin docRestored
                      => g[r].calls[i].ret = g[r].calls[i].seen

\* a later call returned the first record although the file has changed
\* on disk since that record was made
C5_Witness ==
    \E r \in Reqs : \E i \in 1..Len(g[r].calls) :
        /\ IsAllDocs(r)
        /\ g[r].calls[i].seen # <<>>
        /\ g[r].calls[i].ret = g[r].calls[i].seen
        /\ g[r].calls[i].ret[1].CreateDate
             # ModTime(g[r].calls[i].path, fs[g[r].calls[i].path])

\* C6: a call of ProcessDocument that fails to open or stat the file or to
\* open the PDF returns the error and leaves docCache exactly as it was.
C6_FailStep ==
    \A r \in Reqs :
        (/\ g[r].pc = "pd_extract"
         /\ g'[r].pc # "pd_extract"
         /\ g'[r].doc = <<>>)
        => /\ docCache' = docCache
           /\ g'[r].docs = g[r].docs
           /\ Len(g'[r].calls) = Len(g[r].calls) + 1
           /\ g'[r].calls[Len(g'[r].calls)].ret = <<>>
           /\ g'[r].calls[Len(g'[r].calls)].fault # "none"

C6_FailState ==
    \A r \in Reqs :
        IsAllDocs(r)
        => /\ g[r].fault = "none"
           /\ \A i \in 1..Len(g[r].calls) :
                (g[r].calls[i].fault # "none") <=> (g[r].calls[i].ret = <<>>)

C6_FailedExtractStoresNothing == [][C6_FailStep]_vars /\ []C6_FailState

\* an extraction failed at the PDF open and the cache, which holds another
\* document, has nothing under the id of the failed one
C6_Witness ==
    \E r \in Reqs : \E i \in 1..Len(g[r].calls) :
        /\ IsAllDocs(r)
        /\ g[r].calls[i].fault = "pdf"
        /\ FileInfo[g[r].calls[i].path].id \notin DOMAIN docCache
        /\ DOMAIN docCache # {}

\* the records in a slice that belong to a path
RecordsOf(docs, path) == {k \in 1..Len(docs) : docs[k].FilePath = path}

\* C7: AllDocs goes through every discovered path, and its listing holds
\* exactly one record for each path whose extraction succeeded and none for
\* a path whose extraction failed.
C7_ListingSkipsOnlyFailures ==
    \A r \in Reqs :
        IsAllDocs(r)
        => /\ \A i \in 1..Len(g[r].calls) :
                /\ g[r].calls[i].path = ArchiveFiles[i]
                /\ Cardinality(RecordsOf(g[r].docs, ArchiveFiles[i]))
                     = IF g[r].calls[i].ret = <<>> THEN 0 ELSE 1
           /\ \A k \in 1..Len(g[r].docs) :
                \E i \in 1..Len(g[r].calls) :
                    g[r].calls[i].ret = <<g[r].docs[k]>>
           /\ g[r].pc = "done" => Len(g[r].calls) = Len(ArchiveFiles)

\* a listing is complete in which the first path failed and a later one
\* is listed
C7_Witness ==
    \E r \in Reqs :
        /\ IsAllDocs(r) /\ g[r].pc = "done"
        /\ g[r].calls[1].ret = <<>>
        /\ Len(g[r].docs) = Len(ArchiveFiles) - 1

\* the stable sort by logical file date, latest first
RECURSIVE InsertByDate(_, _)
InsertByDate(sorted, d) ==
    IF sorted = <<>> THEN <<d>>
    ELSE IF Less(d, Head(sorted)) THEN <<d>> \o sorted
    ELSE <<Head(sorted)>> \o InsertByDate(Tail(sorted), d)

RECURSIVE StableSortInto(_, _)
StableSortInto(sorted, rest) ==
    IF rest = <<>> THEN sorted
    ELSE StableSortInto(InsertByDate(sorted, Head(rest)), Tail(rest))

\* C8: the listing AllDocs returns is the stable sort, by logical file date
\* descending, of the records it extracted, in discovery order.
C8_ListingStableSorted ==
    \A r \in Reqs :
        (IsAllDocs(r) /\ g[r].pc = "done")
        => g[r].docs = StableSortInto(<<>>, g[r].pre)

\* C9: a Categories request in which opening or statting an entry failed
\* skips that entry, returns the other categories, and the server runs on.
C9_CategoryFailureSkipped ==
    \A r \in Reqs :
        (IsCategories(r) /\ g[r].fault # "none")
        => /\ exit = "running"
           /\ g[r].pc = "done"

\* the failures of the PDF library: poppler.Open in ProcessDocument, and
\* poppler.Open and Render in DocThumbnail
PdfFaults ==
    {"pdf", "open_panic", "open_crash", "open_blank", "render_panic", "render_blank"}

InDocCache(r) == g[r].pc \in {"pd_lookup", "pd_store", "th_doclookup"}
InThumbCache(r) == g[r].pc \in {"th_lookup", "th_store"}

C11_State ==
    /\ \A r \in Reqs :
        /\ InDocCache(r) => docCacheMutex = r
        /\ InThumbCache(r) => docThumbCacheMutex = r
    /\ \A r1, r2 \in Reqs :
        r1 # r2 => /\ ~(InDocCache(r1) /\ InDocCache(r2))
                   /\ ~(InThumbCache(r1) /\ InThumbCache(r2))

C11_Step ==
    /\ docCache' # docCache
        => \E r \in Reqs :
            /\ docCacheMutex = r /\ g[r].pc = "pd_store"
            /\ \A q \in Reqs \ {r} : g'[q] = g[q]
    /\ docThumbCache' # docThumbCache
        => \E r \in Reqs :
            /\ docThumbCacheMutex = r /\ g[r].pc = "th_store"
            /\ \A q \in Reqs \ {r} : g'[q] = g[q]

\* C11: a request reads or writes docCache only while it holds
\* docCacheMutex and docThumbCache only while it holds docThumbCacheMutex,
\* a map changes only in a step of the request holding its mutex, and no
\* two requests are at an access of the same map at the same time.
C11_CachesAccessedUnderMutex == [][C11_Step]_vars /\ []C11_State

\* a request is about to write docCache while another waits for the mutex
\* to access the same map
C11_Witness ==
    \E r1, r2 \in Reqs :
        /\ r1 # r2
        /\ g[r1].pc = "pd_store"
        /\ g[r2].pc \in {"pd_lock1", "pd_lock2", "th_lock2"}

C12_Step ==
    /\ DOMAIN docCache \subseteq DOMAIN docCache'
    /\ DOMAIN docThumbCache \subseteq DOMAIN docThumbCache'

\* C12: a fingerprint that is a key of docCache or of docThumbCache is a
\* key of it in every later state: no step of any request removes an entry.
C12_CachesAppendOnly == [][C12_Step]_vars

\* both caches hold entries and a request that ran into a failure has
\* ended since
C12_Witness ==
    /\ Cardinality(DOMAIN docCache) = Len(ArchiveFiles)
    /\ DOMAIN docThumbCache # {}
    /\ \E r \in Reqs : g[r].pc = "done" /\ g[r].fault # "none" /\ ~g[r].stored

\* C14: a thumbnail request whose id is no unsigned 64-bit decimal number
\* is answered with the invalid-id message and nothing else: no
\* unknown-document message, no thumbnail bytes, no panic, no PDF open or
\* render, no store.
C14_InvalidIdOnlyMessage ==
    \A r \in Reqs :
        (IsThumb(r) /\ g[r].resp.invalid /\ g[r].pc = "done")
        => /\ ~g[r].resp.unknown
           /\ ~g[r].panicked
           /\ ~g[r].resp.wrote
           /\ g[r].resp.body = <<>>
           /\ g[r].pdfIO = 0
           /\ ~g[r].stored

C13_Step ==
    \A id \in DOMAIN docCache : docCache'[id].FilePath = docCache[id].FilePath

\* C13: once docCache holds a record under a fingerprint, the path of the
\* record cached under that fingerprint is the same in every later state,
\* whatever paths the extractions running at the time are for.
C13_PathImmutable == [][C13_Step]_vars

\* the categories of an archive as the listing should give them: the
\* entries of the root that are directories and not hidden, each with the
\* number of files directly inside it whose name ends in ".pdf"
PdfFilesIn(dir) ==
    {i \in 1..Len(ReadDir(dir)) :
        ~ReadDir(dir)[i].isDir /\ HasSuffix(ReadDir(dir)[i].name, PdfSuffix)}

CategoryListing(root) ==
    LET Shown(e) == e.isDir /\ ~HasPrefix(e.name, <<ChDot>>)
        dirs == SelectSeq(ReadDir(root), Shown)
    IN  [i \in 1..Len(dirs) |->
            [Name |-> dirs[i].name,
             Elements |-> Cardinality(PdfFilesIn(JoinPath(root, dirs[i].name)))]]

\* C15: a Categories request that completes returns one entry for each
\* non-hidden directory directly under the archive root, none for hidden
\* entries or plain files, and the elements of each entry is the number of
\* .pdf files directly inside that directory.
C15_CategoriesCountPdfFiles ==
    \A r \in Reqs :
        (IsCategories(r) /\ g[r].pc = "done")
        => g[r].cats = CategoryListing(archivePath)

\* the record one extraction of the path produces when it runs alone on
\* version v of the file
ExtractedAlone(path, v) ==
    NewDoc(path, FileInfo[path].id, <<FileSize(path, v), ModTime(path, v)>>,
           NPages(path, v), PageText(path, v))

C16_Step ==
    \A r \in Reqs :
        (g[r].pc = "pd_store" /\ g'[r].pc # "pd_store")
        => /\ g[r].docId \in DOMAIN docCache'
           /\ docCache'[g[r].docId] = g[r].doc[1]

C16_State ==
    \A id \in DOMAIN docCache :
        \E i \in 1..Len(ArchiveFiles) :
            /\ FileInfo[ArchiveFiles[i]].id = id
            /\ \E v \in 0..fs[ArchiveFiles[i]] :
                    docCache[id] = ExtractedAlone(ArchiveFiles[i], v)

\* C16: however calls of ProcessDocument for one path interleave, docCache
\* holds one record under its fingerprint, each store leaves the record it
\* wrote there (the last store wins), and the record is field for field
\* the one an extraction running alone produces from a version the file
\* has had.
C16_DuplicateExtractNotCorrupting == [][C16_Step]_vars /\ []C16_State

\* two calls for one path both stored, and the second store replaced the
\* record of the first with another
C16_Witness ==
    \E i \in 1..Len(ArchiveFiles) :
        /\ FileInfo[ArchiveFiles[i]].id \in docRestored
        /\ ArchiveFiles[i] \in DOMAIN firstDoc
        /\ docCache[FileInfo[ArchiveFiles[i]].id] # firstDoc[ArchiveFiles[i]]

C17_Step ==
    \A r \in Reqs :
        /\ (/\ g[r].pc = "pd_lookup" /\ g'[r].pc # "pd_lookup"
            /\ g[r].docId \notin DOMAIN docCache)
           => g'[r].pc = "pd_extract"
        /\ (/\ g[r].pc = "th_lookup" /\ g'[r].pc # "th_lookup"
            /\ g[r].docId \notin DOMAIN docThumbCache)
           => g'[r].pc = "th_lock2"

\* C17: nothing makes an extraction or a render happen at most once: a
\* request that finds no entry under its fingerprint goes on to the full
\* extraction (or to the render) whatever the other requests are doing,
\* so two requests racing on a cold cache both do the work and both store.
C17_MissAlwaysComputes == [][C17_Step]_vars

\* a fingerprint has been extracted and stored twice, and a thumbnail
\* rendered and stored twice
C17_Witness ==
    /\ docRestored # {}
    /\ thumbRestored # {}

\* the positions at which a request does file or PDF work: os.Open, Stat,
\* poppler.Open and the page text (lines 99-141), poppler.Open, Render and
\* jpeg.Encode (lines 262-282)
InFileOrPdfWork(r) == g[r].pc \in {"pd_extract", "th_render"}

C18_State ==
    \A r \in Reqs :
        /\ InFileOrPdfWork(r) => (docCacheMutex # r /\ docThumbCacheMutex # r)
        /\ docCacheMutex = r => InDocCache(r)
        /\ docThumbCacheMutex = r => InThumbCache(r)

C18_Step ==
    \A r \in Reqs :
        /\ (docCacheMutex = r /\ g'[r] # g[r]) => docCacheMutex' # r
        /\ (docThumbCacheMutex = r /\ g'[r] # g[r]) => docThumbCacheMutex' # r

\* C18: a request at its file stat, PDF open, text extraction, render or
\* encode holds neither mutex; a request holding a mutex is at a single
\* map lookup or insert and its next step releases the mutex.
C18_NoMutexAcrossPdfWork == [][C18_Step]_vars /\ []C18_State

\* while one request is in its PDF work another holds a mutex for its
\* own map access
C18_Witness ==
    \E r1, r2 \in Reqs :
        /\ r1 # r2
        /\ InFileOrPdfWork(r1)
        /\ (docCacheMutex = r2 \/ docThumbCacheMutex = r2)

\* C19: whenever the server runs and no request is in flight, no file
\* handle and no PDF handle that a request opened is still open.
C19_NoHandleOutlivesRequest ==
    (exit = "running" /\ \A r \in Reqs : g[r].pc \in {"idle", "done"})
    => \A r \in Reqs : g[r].openFiles = 0 /\ g[r].openPdfs = 0

\* the request waits in Lock for docCacheMutex or for docThumbCacheMutex
WaitsForMutex(r) ==
    g[r].pc \in {"pd_lock1", "pd_lock2", "th_lock1", "th_lock2", "th_lock3"}

C20_State ==
    \A r \in Reqs :
        /\ ~(docCacheMutex = r /\ docThumbCacheMutex = r)
        /\ (~InDocCache(r)) => docCacheMutex # r
        /\ (~InThumbCache(r)) => docThumbCacheMutex # r

C20_Acquires ==
    \A r \in Reqs :
        WaitsForMutex(r) ~> (~WaitsForMutex(r) \/ exit # "running")

\* C20: no request holds both mutexes at once, a request holds a mutex
\* only at the one map access it locked it for, and under fair scheduling
\* every request waiting for a mutex gets it (as long as the process runs).
C20_MutexesNeverDeadlock == []C20_State /\ C20_Acquires

\* a request waits for a mutex that another request holds
C20_Witness ==
    \E r1, r2 \in Reqs :
        /\ r1 # r2
        /\ g[r1].pc \in {"th_lock1", "th_lock3"}
        /\ docThumbCacheMutex = r2

====
